---- MODULE Spec2Model ----
(***************************************************************************)
(* Kill Switch: the ad performance control loop of paid/kill_switch.py,    *)
(* driven by the every-30-minutes cron entry point cron/every_30min.py.    *)
(*                                                                         *)
(* Numbers: counts and currency amounts (impressions, clicks, spend,       *)
(* revenue, budgets) are integers.  The ratio metrics the code holds as    *)
(* floats (ctr, cpc, roas) are fixed-point numbers in hundredths, so the   *)
(* float thresholds 0.5, 2.0, 1.5, 4.0 are 50, 200, 150, 400 and the cpc   *)
(* threshold 500 is compared as 500 * Scale.                               *)
(***************************************************************************)
EXTENDS Integers, Sequences, FiniteSets, TLC

(* ---- bounds of the model ---- *)
NumUnits == 2
MaxCycles == 2

(* ---- KillSwitchThresholds (config/constants.py) ---- *)
Scale == 100
MIN_IMPRESSIONS_FOR_CHECK == 500
CTR_CHECK_IMPRESSIONS == 1000
MIN_CTR_PERCENT == 50
CPC_CHECK_SPEND == 5000
MAX_CPC == 500
ROAS_CHECK_SPEND == 10000
MIN_ROAS == 200
WINNER_MIN_CTR == 150
WINNER_MIN_ROAS == 400

(* WINNER_BUDGET_INCREASE_RATE = 1.5, as the fraction RateNum / RateDen *)
RateNum == 3
RateDen == 2

Units == 1..NumUnits

(* The budget group (ad set) that owns unit u: units come in pairs. *)
AdsetOf(u) == ((u - 1) \div 2) + 1

Groups == {AdsetOf(u) : u \in Units}

VARIABLES
  status,      \* platform: unit -> "ACTIVE" | "PAUSED"
  daily,       \* platform: budget group -> daily budget (0 = not set)
  lifetime,    \* platform: budget group -> lifetime budget (0 = not set)
  enabled,     \* SlackNotifier._enabled
  pc,          \* position of the cron run
  active_ads,  \* monitor_all_ads: the listing result
  idx,         \* monitor_all_ads: index of the next unit of active_ads
  stats,       \* monitor_all_ads: the counters
  writes,      \* platform write calls issued by this run, in order
  notes,       \* notifier.send calls made by this run, in order
  trail,       \* history: one record per unit processed by the loop
  listing,     \* history: "none" | "ok" | "failed"
  exit,        \* what main() reported: "none" | "exit0" | "exit1"
  insight,     \* the platform's answer to the last get_insights call
  decision,    \* the last result of check_ad_performance
  cycle,       \* run_monitoring_loop: the number of the current cycle
  ledger,      \* history over the cycles of a run (see NewLedger)
  report,      \* get_all_performance_report: the summaries built so far
  runs         \* overlapping cron runs: run -> its position and locals

vars == <<status, daily, lifetime, enabled, pc, active_ads, idx, stats,
          writes, notes, trail, listing, exit, insight, decision, cycle,
          ledger, report, runs>>

(***************************************************************************)
(* The platform's answers to ad.get_insights.  kind is "error" (the call   *)
(* raised), "empty" (no insight row) or "data" (one row).  has_cpc is      *)
(* FALSE when the row carries no cpc.  revenue is the sum of the values of *)
(* the purchase-type action_values of the row.                             *)
(***************************************************************************)
Row(k, i, c, s, t, hc, p, r) ==
  [kind |-> k, impressions |-> i, clicks |-> c, spend |-> s, ctr |-> t,
   has_cpc |-> hc, cpc |-> p, revenue |-> r]

ErrorResponse == Row("error", 0, 0, 0, 0, FALSE, 0, 0)

EmptyResponse == Row("empty", 0, 0, 0, 0, FALSE, 0, 0)

(* ---- KillSwitch._empty_insights ---- *)
_empty_insights_Dead ==
  [impressions |-> MIN_IMPRESSIONS_FOR_CHECK, clicks |-> 0, spend |-> 0,
   ctr |-> 0, cpc |-> 0, revenue |-> 0, roas |-> 0]

_empty_insights ==
  [impressions |-> 0, clicks |-> 0, spend |-> 0, ctr |-> 0, cpc |-> 0,
   revenue |-> 0, roas |-> 0]

(* ---- KillSwitch.get_ad_insights, on the platform's answer resp ---- *)
get_ad_insights(resp) ==
  IF resp.kind = "error" THEN _empty_insights
  ELSE IF resp.kind = "empty" THEN _empty_insights
  ELSE [impressions |-> resp.impressions,
        clicks |-> resp.clicks,
        spend |-> resp.spend,
        ctr |-> resp.ctr,
        cpc |-> IF resp.has_cpc /\ resp.cpc # 0 THEN resp.cpc ELSE 0,
        revenue |-> resp.revenue,
        roas |-> IF resp.spend > 0
                   THEN (resp.revenue * Scale) \div resp.spend
                   ELSE 0]

(* ---- the tiers of KillSwitch.check_ad_performance ---- *)
Level1_Exclusive(s) ==
  s.impressions > MIN_IMPRESSIONS_FOR_CHECK /\ s.clicks = 0

Level1(s) == s.impressions >= MIN_IMPRESSIONS_FOR_CHECK /\ s.clicks = 0

Level2_Inclusive(s) ==
  s.impressions >= CTR_CHECK_IMPRESSIONS /\ s.ctr <= MIN_CTR_PERCENT

Level2(s) == s.impressions >= CTR_CHECK_IMPRESSIONS /\ s.ctr < MIN_CTR_PERCENT

Level3(s) == s.spend >= CPC_CHECK_SPEND /\ s.cpc > MAX_CPC * Scale

Level4(s) == s.spend >= ROAS_CHECK_SPEND /\ s.roas < MIN_ROAS

Winner(s) == s.ctr >= WINNER_MIN_CTR /\ s.roas >= WINNER_MIN_ROAS

Verdict(a, r) == [action |-> a, reason |-> r]

(* The kill reasons: "no_clicks", "low_ctr", "cpc_exceeded" and            *)
(* "roas_below_minimum" stand for the four reason strings of the source.   *)
check_ad_performance_WinnerFirst(resp) ==
  LET s == get_ad_insights(resp) IN
  IF Winner(s) THEN Verdict("scale", "None")
  ELSE IF Level1(s) THEN Verdict("kill", "no_clicks")
  ELSE IF Level2(s) THEN Verdict("kill", "low_ctr")
  ELSE IF Level3(s) THEN Verdict("kill", "cpc_exceeded")
  ELSE IF Level4(s) THEN Verdict("kill", "roas_below_minimum")
  ELSE Verdict("keep", "None")

check_ad_performance_Fallthrough(resp) ==
  LET s == get_ad_insights(resp) IN
  IF Level1(s) THEN Verdict("kill", "no_clicks")
  ELSE IF Level2(s) THEN Verdict("kill", "low_ctr")
  ELSE IF Level3(s) THEN Verdict("kill", "cpc_exceeded")
  ELSE IF Level4(s) THEN Verdict("kill", "None")
  ELSE IF Winner(s) THEN Verdict("scale", "None")
  ELSE Verdict("none", "None")

check_ad_performance(resp) ==
  LET s == get_ad_insights(resp) IN
  IF Level1(s) THEN Verdict("kill", "no_clicks")
  ELSE IF Level2(s) THEN Verdict("kill", "low_ctr")
  ELSE IF Level3(s) THEN Verdict("kill", "cpc_exceeded")
  ELSE IF Level4(s) THEN Verdict("kill", "roas_below_minimum")
  ELSE IF Winner(s) THEN Verdict("scale", "None")
  ELSE Verdict("keep", "None")

(***************************************************************************)
(* SlackNotifier.send.  net is what the webhook call does: "ok" (status    *)
(* 200), "non200" (another status) or "exception" (requests.post raised).  *)
(* The result is "true", "false" or "raise" (an exception leaves send).    *)
(***************************************************************************)
NetOutcomes == {"ok", "non200", "exception"}

send_Propagating(net) ==
  IF ~enabled THEN "false"
  ELSE IF net = "exception" THEN "raise"
  ELSE IF net = "ok" THEN "true" ELSE "false"

send(net) ==
  IF ~enabled THEN "false"
  ELSE IF net = "exception" THEN "false"
  ELSE IF net = "ok" THEN "true" ELSE "false"

(* One call of the notifier (notify_ad_paused, notify_ad_scaled,           *)
(* notify_error or a plain send), as recorded in notes.                    *)
Note(kind, unit, net) ==
  [kind |-> kind, unit |-> unit,
   net |-> IF enabled THEN net ELSE "disabled",
   ret |-> send(net)]

(***************************************************************************)
(* Results of pause_ad and scale_up_winner: ret is "true", "false" or      *)
(* "raise" (an exception leaves the method), w the platform write calls    *)
(* issued and n the notifier calls made, in order.                         *)
(***************************************************************************)
Outcome(ret, w, n) == [ret |-> ret, w |-> w, n |-> n]

(* A platform write call: unit is the ad whose processing issued it,       *)
(* target the object written (the ad, or its budget group), ok whether the *)
(* call succeeded.                                                         *)
StatusWrite(ad, ok) ==
  [kind |-> "status", unit |-> ad, target |-> ad, field |-> "status",
   value |-> "PAUSED", amount |-> 0, ok |-> ok]

BudgetWrite(ad, g, field, amount, ok) ==
  [kind |-> "budget", unit |-> ad, target |-> g, field |-> field,
   value |-> "", amount |-> amount, ok |-> ok]

(* The except branches of both methods: notify_error, then return False.   *)
(* An exception raised by the notifier inside the handler leaves the       *)
(* method.                                                                 *)
Handler(ad, w, n, net) ==
  LET e == Note("error", ad, net) IN
  Outcome(IF e.ret = "raise" THEN "raise" ELSE "false", w, n \o <<e>>)

(* ---- KillSwitch.pause_ad.  wr: what ad.api_update does ("ok" or         *)
(* "error"); n1, n2: what the webhook does on the first and second         *)
(* notifier call.                                                          *)
pause_ad_Swallow(ad, wr, n1, n2) ==
  IF wr = "ok"
    THEN LET p == Note("paused", ad, n1) IN
         IF p.ret = "raise"
           THEN Handler(ad, <<StatusWrite(ad, TRUE)>>, <<p>>, n2)
           ELSE Outcome("true", <<StatusWrite(ad, TRUE)>>, <<p>>)
    ELSE Outcome("true", <<StatusWrite(ad, FALSE)>>, <<>>)

pause_ad_Retry(ad, wr, n1, n2) ==
  IF wr = "ok"
    THEN LET p == Note("paused", ad, n1) IN
         IF p.ret = "raise"
           THEN Handler(ad, <<StatusWrite(ad, TRUE)>>, <<p>>, n2)
           ELSE Outcome("true", <<StatusWrite(ad, TRUE)>>, <<p>>)
    ELSE Handler(ad, <<StatusWrite(ad, FALSE), StatusWrite(ad, FALSE)>>,
                 <<>>, n1)

pause_ad(ad, wr, n1, n2) ==
  IF wr = "ok"
    THEN LET p == Note("paused", ad, n1) IN
         IF p.ret = "raise"
           THEN Handler(ad, <<StatusWrite(ad, TRUE)>>, <<p>>, n2)
           ELSE Outcome("true", <<StatusWrite(ad, TRUE)>>, <<p>>)
    ELSE Handler(ad, <<StatusWrite(ad, FALSE)>>, <<>>, n1)

(* ---- KillSwitch.scale_up_winner.  ar: what ad.api_get does ("ok",       *)
(* "noadset": no adset_id in the answer, "error"); gr: what adset.api_get  *)
(* does ("ok" or "error"); wr: what adset.api_update does.                 *)
scale_up_winner_SwapField(ad, ar, gr, wr, n1, n2) ==
  LET g == AdsetOf(ad)
      viaDaily == daily[g] # 0
      current_budget == IF viaDaily THEN daily[g] ELSE lifetime[g]
      budget_type == IF viaDaily THEN "lifetime_budget" ELSE "daily_budget"
      new_budget == (current_budget * RateNum) \div RateDen
  IN
  IF ar = "error" THEN Handler(ad, <<>>, <<>>, n1)
  ELSE IF ar = "noadset" THEN Outcome("false", <<>>, <<>>)
  ELSE IF gr = "error" THEN Handler(ad, <<>>, <<>>, n1)
  ELSE IF current_budget = 0 THEN Outcome("false", <<>>, <<>>)
  ELSE IF wr = "error"
    THEN Handler(ad, <<BudgetWrite(ad, g, budget_type, new_budget, FALSE)>>,
                 <<>>, n1)
  ELSE LET c == Note("scaled", ad, n1) IN
       IF c.ret = "raise"
         THEN Handler(ad, <<BudgetWrite(ad, g, budget_type, new_budget, TRUE)>>,
                      <<c>>, n2)
         ELSE Outcome("true",
                      <<BudgetWrite(ad, g, budget_type, new_budget, TRUE)>>,
                      <<c>>)

scale_up_winner_Double(ad, ar, gr, wr, n1, n2) ==
  LET g == AdsetOf(ad)
      viaDaily == daily[g] # 0
      current_budget == IF viaDaily THEN daily[g] ELSE lifetime[g]
      budget_type == IF viaDaily THEN "daily_budget" ELSE "lifetime_budget"
      new_budget == current_budget * RateDen
  IN
  IF ar = "error" THEN Handler(ad, <<>>, <<>>, n1)
  ELSE IF ar = "noadset" THEN Outcome("false", <<>>, <<>>)
  ELSE IF gr = "error" THEN Handler(ad, <<>>, <<>>, n1)
  ELSE IF current_budget = 0 THEN Outcome("false", <<>>, <<>>)
  ELSE IF wr = "error"
    THEN Handler(ad, <<BudgetWrite(ad, g, budget_type, new_budget, FALSE)>>,
                 <<>>, n1)
  ELSE LET c == Note("scaled", ad, n1) IN
       IF c.ret = "raise"
         THEN Handler(ad, <<BudgetWrite(ad, g, budget_type, new_budget, TRUE)>>,
                      <<c>>, n2)
         ELSE Outcome("true",
                      <<BudgetWrite(ad, g, budget_type, new_budget, TRUE)>>,
                      <<c>>)

scale_up_winner_WriteZero(ad, ar, gr, wr, n1, n2) ==
  LET g == AdsetOf(ad)
      viaDaily == daily[g] # 0
      current_budget == IF viaDaily THEN daily[g] ELSE lifetime[g]
      budget_type == IF viaDaily THEN "daily_budget" ELSE "lifetime_budget"
      new_budget == (current_budget * RateNum) \div RateDen
  IN
  IF ar = "error" THEN Handler(ad, <<>>, <<>>, n1)
  ELSE IF ar = "noadset" THEN Outcome("false", <<>>, <<>>)
  ELSE IF gr = "error" THEN Handler(ad, <<>>, <<>>, n1)
  ELSE IF wr = "error"
    THEN Handler(ad, <<BudgetWrite(ad, g, budget_type, new_budget, FALSE)>>,
                 <<>>, n1)
  ELSE LET c == Note("scaled", ad, n1) IN
       IF c.ret = "raise"
         THEN Handler(ad, <<BudgetWrite(ad, g, budget_type, new_budget, TRUE)>>,
                      <<c>>, n2)
         ELSE Outcome("true",
                      <<BudgetWrite(ad, g, budget_type, new_budget, TRUE)>>,
                      <<c>>)

scale_up_winner_Ceiling(ad, ar, gr, wr, n1, n2) ==
  LET g == AdsetOf(ad)
      viaDaily == daily[g] # 0
      current_budget == IF viaDaily THEN daily[g] ELSE lifetime[g]
      budget_type == IF viaDaily THEN "daily_budget" ELSE "lifetime_budget"
      new_budget == (current_budget * RateNum) \div RateDen
  IN
  IF ar = "error" THEN Handler(ad, <<>>, <<>>, n1)
  ELSE IF ar = "noadset" THEN Outcome("false", <<>>, <<>>)
  ELSE IF gr = "error" THEN Handler(ad, <<>>, <<>>, n1)
  ELSE IF current_budget = 0 THEN Outcome("false", <<>>, <<>>)
  ELSE IF ledger.applied[g] > 0 THEN Outcome("false", <<>>, <<>>)
  ELSE IF wr = "error"
    THEN Handler(ad, <<BudgetWrite(ad, g, budget_type, new_budget, FALSE)>>,
                 <<>>, n1)
  ELSE LET c == Note("scaled", ad, n1) IN
       IF c.ret = "raise"
         THEN Handler(ad, <<BudgetWrite(ad, g, budget_type, new_budget, TRUE)>>,
                      <<c>>, n2)
         ELSE Outcome("true",
                      <<BudgetWrite(ad, g, budget_type, new_budget, TRUE)>>,
                      <<c>>)

scale_up_winner(ad, ar, gr, wr, n1, n2) ==
  LET g == AdsetOf(ad)
      viaDaily == daily[g] # 0
      current_budget == IF viaDaily THEN daily[g] ELSE lifetime[g]
      budget_type == IF viaDaily THEN "daily_budget" ELSE "lifetime_budget"
      new_budget == (current_budget * RateNum) \div RateDen
  IN
  IF ar = "error" THEN Handler(ad, <<>>, <<>>, n1)
  ELSE IF ar = "noadset" THEN Outcome("false", <<>>, <<>>)
  ELSE IF gr = "error" THEN Handler(ad, <<>>, <<>>, n1)
  ELSE IF current_budget = 0 THEN Outcome("false", <<>>, <<>>)
  ELSE IF wr = "error"
    THEN Handler(ad, <<BudgetWrite(ad, g, budget_type, new_budget, FALSE)>>,
                 <<>>, n1)
  ELSE LET c == Note("scaled", ad, n1) IN
       IF c.ret = "raise"
         THEN Handler(ad, <<BudgetWrite(ad, g, budget_type, new_budget, TRUE)>>,
                      <<c>>, n2)
         ELSE Outcome("true",
                      <<BudgetWrite(ad, g, budget_type, new_budget, TRUE)>>,
                      <<c>>)

(* ---- KillSwitch.get_active_ads.  lr: what ad_account.get_ads does.      *)
(* The platform lists the units whose effective status is ACTIVE, here in  *)
(* the order of their ids.                                                 *)
ActiveFrom_All(u) == [k \in 1..(NumUnits - u + 1) |-> u + k - 1]

RECURSIVE ActiveFrom(_)
ActiveFrom(u) ==
  IF u > NumUnits THEN <<>>
  ELSE IF status[u] = "ACTIVE" THEN <<u>> \o ActiveFrom(u + 1)
  ELSE ActiveFrom(u + 1)

get_active_ads_Silent(lr, net) ==
  IF lr = "ok" THEN [ads |-> ActiveFrom(1), n |-> <<>>]
  ELSE [ads |-> <<>>, n |-> <<>>]

get_active_ads_Reraise(lr, net) ==
  IF lr = "ok" THEN [ads |-> ActiveFrom(1), n |-> <<>>]
  ELSE [ads |-> <<>>,
        n |-> <<[Note("error", 0, net) EXCEPT !.ret = "raise"]>>]

get_active_ads(lr, net) ==
  IF lr = "ok" THEN [ads |-> ActiveFrom(1), n |-> <<>>]
  ELSE [ads |-> <<>>, n |-> <<Note("error", 0, net)>>]

(* ---- the counting of one iteration of the loop of monitor_all_ads ----  *)
Bump(st, f) == [st EXCEPT ![f] = @ + 1]

Tally_CountAttempt(st, action, ret) ==
  IF ret = "raise" THEN Bump(st, "errors")
  ELSE IF action = "kill" THEN Bump(st, "paused")
  ELSE IF action = "scale" THEN Bump(st, "scaled")
  ELSE Bump(st, "kept")

Tally_DropFailure(st, action, ret) ==
  IF ret = "raise" THEN Bump(st, "errors")
  ELSE IF action = "kill"
    THEN (IF ret = "true" THEN Bump(st, "paused") ELSE st)
  ELSE IF action = "scale"
    THEN (IF ret = "true" THEN Bump(st, "scaled") ELSE st)
  ELSE Bump(st, "kept")

Tally_KeepAsError(st, action, ret) ==
  IF ret = "raise" THEN Bump(st, "errors")
  ELSE IF action = "kill"
    THEN (IF ret = "true" THEN Bump(st, "paused") ELSE Bump(st, "errors"))
  ELSE IF action = "scale"
    THEN (IF ret = "true" THEN Bump(st, "scaled") ELSE Bump(st, "errors"))
  ELSE Bump(st, "errors")

Tally(st, action, ret) ==
  IF ret = "raise" THEN Bump(st, "errors")
  ELSE IF action = "kill"
    THEN (IF ret = "true" THEN Bump(st, "paused") ELSE Bump(st, "errors"))
  ELSE IF action = "scale"
    THEN (IF ret = "true" THEN Bump(st, "scaled") ELSE Bump(st, "errors"))
  ELSE Bump(st, "kept")

(* The counter an iteration incremented, for the history variable trail.   *)
Bucket(old, new) ==
  LET inc == {f \in {"kept", "paused", "scaled", "errors"} : new[f] # old[f]}
  IN IF Cardinality(inc) = 1 /\ \A f \in inc : new[f] = old[f] + 1
       THEN CHOOSE f \in inc : TRUE
       ELSE "none"

(* The effect of the successful writes ws on the platform.                 *)
RECURSIVE Applied(_, _)
Applied(f, ws) ==
  IF ws = <<>> THEN f
  ELSE LET w == Head(ws) IN
       Applied(IF w.ok THEN [f EXCEPT ![w.target] = IF w.kind = "status"
                                                      THEN w.value
                                                      ELSE w.amount]
                       ELSE f,
               Tail(ws))

OfKind(ws, kind, field) == SelectSeq(ws, LAMBDA w : w.kind = kind /\ w.field = field)

(***************************************************************************)
(* The cron run: main -> run_kill_switch_monitoring -> KillSwitch() ->      *)
(* monitor_all_ads, one step per platform round: construction, listing,    *)
(* one iteration of the loop per active unit, and the end of the run.      *)
(***************************************************************************)
NoRow == Row("none", 0, 0, 0, 0, FALSE, 0, 0)

NoVerdict == Verdict("none", "None")

ZeroStats(n) == [total |-> n, kept |-> 0, paused |-> 0, scaled |-> 0, errors |-> 0]

(* Budgets a budget group starts with: daily only, lifetime only (an odd   *)
(* amount, whose increase is truncated), none.                             *)
(* The largest of the small budgets of SpecScale. *)
MaxBudget == 4

BudgetConfigs == {<<10000, 0>>, <<0, 20001>>, <<0, 0>>}

(* The answers of get_insights the run is checked on: a failed call, no    *)
(* row, and one row per outcome of the tier policy.                        *)
InsightCases ==
  { ErrorResponse,
    EmptyResponse,
    Row("data", 600, 0, 0, 0, FALSE, 0, 0),
    Row("data", 20000, 200, 12000, 100, TRUE, 6000, 12000),
    Row("data", 2000, 40, 8000, 200, TRUE, 20000, 40000),
    Row("data", 200, 5, 100, 250, TRUE, 2000, 100) }

(* The history of a run over its cycles: per budget group, applied counts  *)
(* the budget writes that took effect and daily0, lifetime0 are the        *)
(* budgets at the start; pausedBy holds the units this run set to PAUSED   *)
(* that nobody has reactivated since; failed tells whether a cycle before  *)
(* the current one had a failure.                                          *)
NewLedger ==
  [applied |-> [g \in Groups |-> 0],
   daily0 |-> daily,
   lifetime0 |-> lifetime,
   pausedBy |-> {},
   failed |-> FALSE]

(* The current cycle had a failure: the listing failed, a unit was counted *)
(* under errors or a webhook call did not succeed.                         *)
CycleFailed ==
  \/ listing = "failed"
  \/ stats.errors > 0
  \/ \E k \in 1..Len(notes) : notes[k].net \in {"non200", "exception"}

Posted(ad, o) ==
  LET ok == SelectSeq(o.w, LAMBDA w : w.ok)
  IN [ledger EXCEPT
        !.applied[AdsetOf(ad)] =
            @ + Len(SelectSeq(ok, LAMBDA w : w.kind = "budget")),
        !.pausedBy = IF \E k \in 1..Len(ok) : ok[k].kind = "status"
                       THEN @ \cup {ad} ELSE @]

(* The cron runs that may be under way at the same time: the one cron      *)
(* started at one firing and the one it starts at the next.                *)
Runs == {"earlier", "later"}

(* A cron run: its position, and the locals of monitor_all_ads (ads, idx,  *)
(* stats) and of scale_up_winner (current_budget, budget_type).            *)
NoRuns ==
  [r \in Runs |-> [pc |-> "idle", ads |-> <<>>, idx |-> 1,
                   stats |-> ZeroStats(0), current_budget |-> 0,
                   budget_type |-> "none"]]

Init ==
  /\ status \in [Units -> {"ACTIVE", "PAUSED"}]
  /\ \E b \in [Groups -> BudgetConfigs] :
       /\ daily = [g \in Groups |-> b[g][1]]
       /\ lifetime = [g \in Groups |-> b[g][2]]
  /\ enabled \in BOOLEAN
  /\ pc = "init"
  /\ active_ads = <<>>
  /\ idx = 1
  /\ stats = ZeroStats(0)
  /\ writes = <<>>
  /\ notes = <<>>
  /\ trail = <<>>
  /\ listing = "none"
  /\ exit = "none"
  /\ insight = NoRow
  /\ decision = NoVerdict
  /\ cycle = 1
  /\ ledger = NewLedger
  /\ report = <<>>
  /\ runs = NoRuns

(* What the webhook can do on a notifier call: nothing is sent when the   *)
(* notifier is disabled.                                                   *)
NetChoices == IF enabled THEN NetOutcomes ELSE {"ok"}

Raised(ns) == \E k \in 1..Len(ns) : ns[k].ret = "raise"

(* run_kill_switch_monitoring / main: the except branch (notify_error,     *)
(* raise) and sys.exit(1).                                                 *)
Fail(ns, net) ==
  /\ notes' = ns \o <<Note("error", 0, net)>>
  /\ exit' = "exit1"
  /\ pc' = "exited"

(* KillSwitch(): init_facebook_sdk succeeds or raises.                     *)
Construct ==
  /\ pc = "init"
  /\ \E cr \in {"ok", "error"}, net \in NetChoices :
       IF cr = "ok"
         THEN pc' = "list" /\ UNCHANGED <<notes, exit>>
         ELSE Fail(notes, net)
  /\ UNCHANGED <<status, daily, lifetime, enabled, active_ads, idx, stats,
                 writes, trail, listing, insight, decision, cycle, ledger,
                 report, runs>>

(* monitor_all_ads up to the loop: get_active_ads, stats, the early return *)
GetActiveAds ==
  /\ pc = "list"
  /\ \E lr \in {"ok", "error"}, n1 \in NetChoices, n2 \in NetChoices :
       LET r == get_active_ads(lr, n1) IN
       /\ listing' = IF lr = "ok" THEN "ok" ELSE "failed"
       /\ active_ads' = r.ads
       /\ stats' = ZeroStats(Len(r.ads))
       /\ idx' = 1
       /\ IF Raised(r.n)
            THEN Fail(notes \o r.n, n2)
            ELSE /\ notes' = notes \o r.n
                 /\ pc' = IF r.ads = <<>> THEN "returned" ELSE "loop"
                 /\ UNCHANGED exit
  /\ UNCHANGED <<status, daily, lifetime, enabled, writes, trail, insight,
                 decision, cycle, ledger,
                 report, runs>>

(* What the two api_get calls of scale_up_winner did, for the history      *)
(* variable trail: "ok", "noadset" or "error".                             *)
Reads(ar, gr) == IF ar # "ok" THEN ar ELSE gr

(* The effects of one iteration of the loop of monitor_all_ads on the     *)
(* unit ad, whose get_insights answer is resp, decision v and action       *)
(* result o; rd is what the reads of the action did ("na": no read).       *)
Iterate(ad, resp, v, o, rd) ==
  LET st == Tally(stats, v.action, o.ret) IN
  /\ insight' = resp
  /\ decision' = v
  /\ stats' = st
  /\ status' = Applied(status, OfKind(o.w, "status", "status"))
  /\ daily' = Applied(daily, OfKind(o.w, "budget", "daily_budget"))
  /\ lifetime' = Applied(lifetime, OfKind(o.w, "budget", "lifetime_budget"))
  /\ writes' = writes \o o.w
  /\ notes' = notes \o o.n
  /\ trail' = Append(trail, [ad |-> ad, fetch |-> resp.kind,
                             action |-> v.action, reason |-> v.reason,
                             ret |-> o.ret, bucket |-> Bucket(stats, st),
                             reads |-> rd])
  /\ ledger' = Posted(ad, o)

(* One iteration of the loop of monitor_all_ads, on active_ads[idx]:       *)
(* check_ad_performance, then pause_ad, scale_up_winner or nothing.        *)
ProcessUnit ==
  /\ pc = "loop"
  /\ \E resp \in InsightCases :
       LET ad == active_ads[idx]
           v == check_ad_performance(resp)
       IN
       \/ /\ v.action = "kill"
          /\ \E wr \in {"ok", "error"}, n1 \in NetChoices, n2 \in NetChoices :
               Iterate(ad, resp, v, pause_ad(ad, wr, n1, n2), "na")
       \/ /\ v.action = "scale"
          /\ \E ar \in {"ok", "noadset", "error"}, gr \in {"ok", "error"},
                wr \in {"ok", "error"}, n1 \in NetChoices, n2 \in NetChoices :
               Iterate(ad, resp, v, scale_up_winner(ad, ar, gr, wr, n1, n2),
                       Reads(ar, gr))
       \/ /\ v.action \notin {"kill", "scale"}
          /\ Iterate(ad, resp, v, Outcome("true", <<>>, <<>>), "na")
  /\ idx' = idx + 1
  /\ pc' = IF idx = Len(active_ads) THEN "returned" ELSE "loop"
  /\ UNCHANGED <<enabled, active_ads, listing, exit, cycle,
                 report, runs>>

(* run_kill_switch_monitoring after monitor_all_ads returned: the summary  *)
(* notification when something changed, then sys.exit(0).                  *)
CronFinish ==
  /\ pc = "returned"
  /\ \E n1 \in NetChoices, n2 \in NetChoices :
       LET ns == IF stats.paused > 0 \/ stats.scaled > 0
                   THEN <<Note("summary", 0, n1)>>
                   ELSE <<>>
       IN IF Raised(ns)
            THEN Fail(notes \o ns, n2)
            ELSE /\ notes' = notes \o ns
                 /\ exit' = "exit0"
                 /\ pc' = "exited"
  /\ UNCHANGED <<status, daily, lifetime, enabled, active_ads, idx, stats,
                 writes, trail, listing, insight, decision, cycle, ledger,
                 report, runs>>

Next == Construct \/ GetActiveAds \/ ProcessUnit \/ CronFinish

Spec == Init /\ [][Next]_vars

(***************************************************************************)
(* run_monitoring_loop: the start notification, then cycle after cycle of  *)
(* monitor_all_ads with a sleep in between, while an operator may          *)
(* reactivate paused units on the platform.  writes, notes and trail hold  *)
(* the calls of the current cycle.  The runs start with no webhook URL     *)
(* configured, so that send returns False without a network call.          *)
(***************************************************************************)
InitLoop ==
  /\ status \in [Units -> {"ACTIVE", "PAUSED"}]
  /\ \E b \in [Groups -> BudgetConfigs] :
       /\ daily = [g \in Groups |-> b[g][1]]
       /\ lifetime = [g \in Groups |-> b[g][2]]
  /\ enabled = FALSE
  /\ pc = "start"
  /\ active_ads = <<>>
  /\ idx = 1
  /\ stats = ZeroStats(0)
  /\ writes = <<>>
  /\ notes = <<>>
  /\ trail = <<>>
  /\ listing = "none"
  /\ exit = "none"
  /\ insight = NoRow
  /\ decision = NoVerdict
  /\ cycle = 1
  /\ ledger = NewLedger
  /\ report = <<>>
  /\ runs = NoRuns

(* run_monitoring_loop up to the loop: the start notification, sent       *)
(* before the try block, so that an exception from it leaves the method.   *)
LoopStart ==
  /\ pc = "start"
  /\ \E n1 \in NetChoices :
       LET ns == <<Note("start", 0, n1)>> IN
       /\ notes' = notes \o ns
       /\ IF Raised(ns)
            THEN pc' = "exited" /\ exit' = "exit1"
            ELSE pc' = "list" /\ UNCHANGED exit
  /\ UNCHANGED <<status, daily, lifetime, enabled, active_ads, idx, stats,
                 writes, trail, listing, insight, decision, cycle, ledger,
                 report, runs>>

(* The end of one pass of the while loop: time.sleep, then the next cycle. *)
(* The locals of monitor_all_ads are gone when it has returned.            *)
Sleep ==
  /\ pc = "returned"
  /\ cycle < MaxCycles
  /\ cycle' = cycle + 1
  /\ pc' = "list"
  /\ active_ads' = <<>>
  /\ idx' = 1
  /\ stats' = ZeroStats(0)
  /\ listing' = "none"
  /\ insight' = NoRow
  /\ decision' = NoVerdict
  /\ writes' = <<>>
  /\ notes' = <<>>
  /\ trail' = <<>>
  /\ ledger' = [ledger EXCEPT !.failed = @ \/ CycleFailed]
  /\ UNCHANGED <<status, daily, lifetime, enabled, exit,
                 report, runs>>

(* An operator sets a paused unit back to ACTIVE on the platform.  The     *)
(* program reads a unit's status only in get_active_ads, so a change made  *)
(* at any moment of a cycle or of the sleep shows at the next listing:     *)
(* the step is taken just before it.                                       *)
Reactivate ==
  /\ pc = "list"
  /\ \E u \in Units :
       /\ status[u] = "PAUSED"
       /\ status' = [status EXCEPT ![u] = "ACTIVE"]
       /\ ledger' = [ledger EXCEPT !.pausedBy = @ \ {u}]
  /\ UNCHANGED <<daily, lifetime, enabled, pc, active_ads, idx, stats,
                 writes, notes, trail, listing, exit, insight, decision,
                 cycle,
                 report, runs>>

NextLoop == LoopStart \/ GetActiveAds \/ ProcessUnit \/ Sleep \/ Reactivate

SpecLoop == InitLoop /\ [][NextLoop]_vars

(***************************************************************************)
(* Cron runs of every_30min that are under way at the same time, and an    *)
(* operator who edits a budget on the platform.  cron starts a run at      *)
(* every firing, whether or not the run before has finished; nothing in    *)
(* main or run_kill_switch_monitoring takes a lock.  Each platform call of *)
(* a run is a step of its own, so that the calls of two runs interleave.   *)
(* The notifier is not configured in these runs.                           *)
(***************************************************************************)
InitOverlap ==
  /\ status = [u \in Units |-> "ACTIVE"]
  /\ daily = [g \in Groups |-> 10000]
  /\ lifetime = [g \in Groups |-> 0]
  /\ enabled = FALSE
  /\ pc = "cron"
  /\ active_ads = <<>>
  /\ idx = 1
  /\ stats = ZeroStats(0)
  /\ writes = <<>>
  /\ notes = <<>>
  /\ trail = <<>>
  /\ listing = "none"
  /\ exit = "none"
  /\ insight = NoRow
  /\ decision = NoVerdict
  /\ cycle = 1
  /\ ledger = NewLedger
  /\ report = <<>>
  /\ runs = NoRuns

(* What one platform or notifier call sequence of run r leaves behind.     *)
Effects(o) ==
  /\ status' = Applied(status, OfKind(o.w, "status", "status"))
  /\ daily' = Applied(daily, OfKind(o.w, "budget", "daily_budget"))
  /\ lifetime' = Applied(lifetime, OfKind(o.w, "budget", "lifetime_budget"))
  /\ writes' = writes \o o.w
  /\ notes' = notes \o o.n

(* The run goes on to its next unit, or has returned from monitor_all_ads. *)
Advance(r, st) ==
  runs' = [runs EXCEPT ![r].stats = st,
                       ![r].idx = @ + 1,
                       ![r].pc = IF runs[r].idx = Len(runs[r].ads)
                                   THEN "returned" ELSE "loop"]

(* cron fires: main, run_kill_switch_monitoring, KillSwitch().             *)
CronFire ==
  /\ \E r \in Runs :
       /\ runs[r].pc = "idle"
       /\ r = "later" => runs["earlier"].pc # "idle"
       /\ runs' = [runs EXCEPT ![r].pc = "list"]
  /\ UNCHANGED <<status, daily, lifetime, enabled, pc, active_ads, idx, stats,
                 writes, notes, trail, listing, exit, insight, decision, cycle,
                 ledger, report>>

(* monitor_all_ads of run r: the listing.                                  *)
RunList ==
  /\ \E r \in Runs, lr \in {"ok", "error"} :
       LET l == get_active_ads(lr, "ok") IN
       /\ runs[r].pc = "list"
       /\ runs' = [runs EXCEPT ![r].ads = l.ads,
                               ![r].idx = 1,
                               ![r].stats = ZeroStats(Len(l.ads)),
                               ![r].pc = IF l.ads = <<>> THEN "returned"
                                                         ELSE "loop"]
       /\ notes' = notes \o l.n
  /\ UNCHANGED <<status, daily, lifetime, enabled, pc, active_ads, idx, stats,
                 writes, trail, listing, exit, insight, decision, cycle,
                 ledger, report>>

(* monitor_all_ads of run r on its next unit: check_ad_performance, then   *)
(* pause_ad, or scale_up_winner up to its budget read, or nothing.         *)
RunUnit ==
  /\ \E r \in Runs, resp \in InsightCases :
       LET ad == runs[r].ads[runs[r].idx]
           v == check_ad_performance(resp)
           g == AdsetOf(ad)
       IN
       /\ runs[r].pc = "loop"
       /\ \/ /\ v.action = "kill"
             /\ \E wr \in {"ok", "error"} :
                  LET o == pause_ad(ad, wr, "ok", "ok") IN
                  /\ Effects(o)
                  /\ Advance(r, Tally(runs[r].stats, v.action, o.ret))
          \/ /\ v.action = "scale"
             /\ \E ar \in {"ok", "noadset", "error"}, gr \in {"ok", "error"} :
                  IF Reads(ar, gr) = "ok" /\ (daily[g] # 0 \/ lifetime[g] # 0)
                    THEN /\ runs' =
                              [runs EXCEPT
                                 ![r].pc = "write",
                                 ![r].current_budget =
                                     IF daily[g] # 0 THEN daily[g]
                                                     ELSE lifetime[g],
                                 ![r].budget_type =
                                     IF daily[g] # 0 THEN "daily_budget"
                                                     ELSE "lifetime_budget"]
                         /\ UNCHANGED <<status, daily, lifetime, writes, notes>>
                    ELSE LET o == scale_up_winner(ad, ar, gr, "ok", "ok", "ok")
                         IN /\ Effects(o)
                            /\ Advance(r, Tally(runs[r].stats, v.action, o.ret))
          \/ /\ v.action \notin {"kill", "scale"}
             /\ Advance(r, Tally(runs[r].stats, v.action, "true"))
             /\ UNCHANGED <<status, daily, lifetime, writes, notes>>
  /\ UNCHANGED <<enabled, pc, active_ads, idx, stats, trail, listing, exit,
                 insight, decision, cycle, ledger, report>>

(* scale_up_winner of run r from new_budget on: the budget write with the  *)
(* value computed from the budget it read, the notification, the counting. *)
RunWrite ==
  /\ \E r \in Runs, wr \in {"ok", "error"} :
       LET ad == runs[r].ads[runs[r].idx]
           new_budget == (runs[r].current_budget * RateNum) \div RateDen
           w == BudgetWrite(ad, AdsetOf(ad), runs[r].budget_type, new_budget,
                            wr = "ok")
           o == IF wr = "ok"
                  THEN Outcome("true", <<w>>, <<Note("scaled", ad, "ok")>>)
                  ELSE Handler(ad, <<w>>, <<>>, "ok")
       IN
       /\ runs[r].pc = "write"
       /\ Effects(o)
       /\ Advance(r, Tally(runs[r].stats, "scale", o.ret))
  /\ UNCHANGED <<enabled, pc, active_ads, idx, stats, trail, listing, exit,
                 insight, decision, cycle, ledger, report>>

(* run_kill_switch_monitoring of run r after monitor_all_ads: the summary  *)
(* notification when something changed, then sys.exit(0).                  *)
RunFinish ==
  /\ \E r \in Runs :
       /\ runs[r].pc = "returned"
       /\ runs' = [runs EXCEPT ![r].pc = "done"]
       /\ notes' = IF runs[r].stats.paused > 0 \/ runs[r].stats.scaled > 0
                     THEN Append(notes, Note("summary", 0, "ok"))
                     ELSE notes
  /\ UNCHANGED <<status, daily, lifetime, enabled, pc, active_ads, idx, stats,
                 writes, trail, listing, exit, insight, decision, cycle,
                 ledger, report>>

(* An operator changes the daily budget of a budget group on the platform. *)
EditBudget ==
  /\ \E g \in Groups :
       /\ daily[g] = 10000
       /\ daily' = [daily EXCEPT ![g] = 12000]
  /\ UNCHANGED <<status, lifetime, enabled, pc, active_ads, idx, stats,
                 writes, notes, trail, listing, exit, insight, decision, cycle,
                 ledger, report, runs>>

NextOverlap ==
  CronFire \/ RunList \/ RunUnit \/ RunWrite \/ RunFinish \/ EditBudget

SpecOverlap == InitOverlap /\ [][NextOverlap]_vars

(***************************************************************************)
(* The diagnostic: get_all_performance_report over the active units, or    *)
(* get_performance_summary for one unit (the --report and --check modes of *)
(* the command line).                                                      *)
(***************************************************************************)
(* round(x, 0) of a value in hundredths: to the nearest unit, a half to    *)
(* the even one.                                                           *)
Round0(x) ==
  LET q == x \div Scale
      r == x % Scale
  IN IF 2 * r > Scale \/ (2 * r = Scale /\ q % 2 = 1)
       THEN (q + 1) * Scale
       ELSE q * Scale

(* get_performance_summary_Acting applies the decision as the cycle does.  *)
get_performance_summary_Acting(ad, r1, r2) ==
  LET s == get_ad_insights(r1)
      v == check_ad_performance(r2)
      o == IF v.action = "kill" THEN pause_ad(ad, "ok", "ok", "ok")
           ELSE Outcome("true", <<>>, <<>>)
  IN [summary |-> [ad_id |-> ad, impressions |-> s.impressions,
                   clicks |-> s.clicks, spend |-> s.spend, ctr |-> s.ctr,
                   cpc |-> Round0(s.cpc), revenue |-> s.revenue,
                   roas |-> s.roas, action |-> v.action, reason |-> v.reason],
      w |-> o.w, n |-> o.n]

(* get_performance_summary: r1 is the platform's answer to its own         *)
(* get_ad_insights call, r2 the answer to the call check_ad_performance    *)
(* makes afterwards.  ctr and roas are kept in hundredths, which           *)
(* round(x, 2) leaves as they are.  w and n are the platform write calls   *)
(* and notifier calls it makes: none.                                      *)
get_performance_summary(ad, r1, r2) ==
  LET s == get_ad_insights(r1)
      v == check_ad_performance(r2)
  IN [summary |-> [ad_id |-> ad, impressions |-> s.impressions,
                   clicks |-> s.clicks, spend |-> s.spend, ctr |-> s.ctr,
                   cpc |-> Round0(s.cpc), revenue |-> s.revenue,
                   roas |-> s.roas, action |-> v.action, reason |-> v.reason],
      w |-> <<>>, n |-> <<>>]

(* The answers of get_insights the diagnostic is checked on: those of the  *)
(* cycle and one whose cpc, 500.40, lies above MAX_CPC and rounds to it.   *)
ReportCases ==
  InsightCases \cup {Row("data", 2000, 40, 6000, 200, TRUE, 50040, 0)}

InitReport ==
  /\ status \in [Units -> {"ACTIVE", "PAUSED"}]
  /\ daily = [g \in Groups |-> 10000]
  /\ lifetime = [g \in Groups |-> 0]
  /\ enabled \in BOOLEAN
  /\ pc = "report"
  /\ active_ads = <<>>
  /\ idx = 1
  /\ stats = ZeroStats(0)
  /\ writes = <<>>
  /\ notes = <<>>
  /\ trail = <<>>
  /\ listing = "none"
  /\ exit = "none"
  /\ insight = NoRow
  /\ decision = NoVerdict
  /\ cycle = 1
  /\ ledger = NewLedger
  /\ report = <<>>
  /\ runs = NoRuns

(* One call of get_performance_summary and what it leaves behind.          *)
Summarized(ad, r1, r2) ==
  LET o == get_performance_summary(ad, r1, r2) IN
  /\ report' = Append(report, o.summary)
  /\ insight' = r2
  /\ decision' = check_ad_performance(r2)
  /\ status' = Applied(status, OfKind(o.w, "status", "status"))
  /\ daily' = Applied(daily, OfKind(o.w, "budget", "daily_budget"))
  /\ lifetime' = Applied(lifetime, OfKind(o.w, "budget", "lifetime_budget"))
  /\ writes' = writes \o o.w
  /\ notes' = notes \o o.n

(* get_all_performance_report: the listing.                                *)
ReportList ==
  /\ pc = "report"
  /\ \E lr \in {"ok", "error"}, n1 \in NetChoices :
       LET r == get_active_ads(lr, n1) IN
       /\ listing' = IF lr = "ok" THEN "ok" ELSE "failed"
       /\ active_ads' = r.ads
       /\ notes' = notes \o r.n
       /\ pc' = IF r.ads = <<>> THEN "reported" ELSE "summary"
  /\ idx' = 1
  /\ UNCHANGED <<status, daily, lifetime, enabled, stats, writes, trail, exit,
                 insight, decision, cycle, ledger, report, runs>>

(* get_all_performance_report: one pass of its loop, on active_ads[idx].   *)
Summarize ==
  /\ pc = "summary"
  /\ \E r1 \in ReportCases, r2 \in ReportCases :
       Summarized(active_ads[idx], r1, r2)
  /\ idx' = idx + 1
  /\ pc' = IF idx = Len(active_ads) THEN "reported" ELSE "summary"
  /\ UNCHANGED <<enabled, active_ads, stats, trail, listing, exit, cycle,
                 ledger, runs>>

(* --check AD_ID: get_performance_summary for one unit, active or not.     *)
CheckUnit ==
  /\ pc = "report"
  /\ \E u \in Units, r1 \in ReportCases, r2 \in ReportCases :
       Summarized(u, r1, r2)
  /\ pc' = "reported"
  /\ UNCHANGED <<enabled, active_ads, idx, stats, trail, listing, exit, cycle,
                 ledger, runs>>

NextReport == ReportList \/ Summarize \/ CheckUnit

SpecReport == InitReport /\ [][NextReport]_vars

(***************************************************************************)
(* run_monitoring_loop with the notifier configured and a KeyboardInterrupt*)
(* that may arrive at any moment of the loop.  The runs start with at most *)
(* the first two units active.                                             *)
(***************************************************************************)
Watched == {u \in Units : u <= 2}

InitRun ==
  /\ status \in {s \in [Units -> {"ACTIVE", "PAUSED"}] :
                  \A u \in Units \ Watched : s[u] = "PAUSED"}
  /\ \E b \in {c \in [Groups -> BudgetConfigs] :
                 \A g \in Groups \ {AdsetOf(u) : u \in Watched} :
                   c[g] = <<0, 0>>} :
       /\ daily = [g \in Groups |-> b[g][1]]
       /\ lifetime = [g \in Groups |-> b[g][2]]
  /\ enabled = TRUE
  /\ pc = "start"
  /\ active_ads = <<>>
  /\ idx = 1
  /\ stats = ZeroStats(0)
  /\ writes = <<>>
  /\ notes = <<>>
  /\ trail = <<>>
  /\ listing = "none"
  /\ exit = "none"
  /\ insight = NoRow
  /\ decision = NoVerdict
  /\ cycle = 1
  /\ ledger = NewLedger
  /\ report = <<>>
  /\ runs = NoRuns

(* The platform write of the unit in flight that has been accepted when    *)
(* the interrupt lands between api_update and the counting of the result.  *)
InFlight(ad, resp) ==
  LET v == check_ad_performance(resp) IN
  IF v.action = "kill" THEN pause_ad(ad, "ok", "ok", "ok").w
  ELSE IF v.action = "scale"
    THEN scale_up_winner(ad, "ok", "ok", "ok", "ok", "ok").w
  ELSE <<>>

Interrupt_Counted ==
  /\ pc \in {"list", "loop", "returned"}
  /\ \E n1 \in NetChoices,
        ws \in {<<>>} \cup (IF pc = "loop"
                              THEN {InFlight(active_ads[idx], r) :
                                      r \in InsightCases}
                              ELSE {}) :
       /\ writes' = writes \o ws
       /\ status' = Applied(status, OfKind(ws, "status", "status"))
       /\ daily' = Applied(daily, OfKind(ws, "budget", "daily_budget"))
       /\ lifetime' = Applied(lifetime, OfKind(ws, "budget", "lifetime_budget"))
       /\ ledger' = IF ws = <<>> THEN ledger
                     ELSE Posted(active_ads[idx], Outcome("raise", ws, <<>>))
       /\ notes' = notes \o <<Note("stop", 0, n1)>>
  /\ pc' = "exited"
  /\ exit' = "interrupted"
  /\ stats' = IF pc = "loop" THEN Bump(stats, "errors") ELSE stats
  /\ UNCHANGED <<enabled, active_ads, idx, trail, listing, insight, decision,
                 cycle,
                 report, runs>>

(* KeyboardInterrupt inside the try block of run_monitoring_loop: it is no *)
(* Exception, so no except branch of get_active_ads, pause_ad,             *)
(* scale_up_winner or monitor_all_ads catches it; the loop's own branch    *)
(* sends the stop notification and the method returns.  While a unit is in *)
(* flight the interrupt lands before its write call or just after it.      *)
Interrupt ==
  /\ pc \in {"list", "loop", "returned"}
  /\ \E n1 \in NetChoices,
        ws \in {<<>>} \cup (IF pc = "loop"
                              THEN {InFlight(active_ads[idx], r) :
                                      r \in InsightCases}
                              ELSE {}) :
       /\ writes' = writes \o ws
       /\ status' = Applied(status, OfKind(ws, "status", "status"))
       /\ daily' = Applied(daily, OfKind(ws, "budget", "daily_budget"))
       /\ lifetime' = Applied(lifetime, OfKind(ws, "budget", "lifetime_budget"))
       /\ ledger' = IF ws = <<>> THEN ledger
                     ELSE Posted(active_ads[idx], Outcome("raise", ws, <<>>))
       /\ notes' = notes \o <<Note("stop", 0, n1)>>
  /\ pc' = "exited"
  /\ exit' = "interrupted"
  /\ UNCHANGED <<enabled, active_ads, idx, stats, trail, listing, insight,
                 decision, cycle,
                 report, runs>>

NextRun == LoopStart \/ GetActiveAds \/ ProcessUnit \/ Sleep \/ Interrupt

SpecRun == InitRun /\ [][NextRun]_vars

(* The interpreter keeps executing the loop: each of its steps is taken    *)
(* when it stays possible.  An interrupt may or may not arrive.            *)
Proceed == LoopStart \/ GetActiveAds \/ ProcessUnit \/ Sleep

SpecRunFair == SpecRun /\ WF_vars(Proceed)

(***************************************************************************)
(* The tier policy on its own: check_ad_performance applied to every       *)
(* platform answer of a grid that puts each metric on, just below and just *)
(* above each threshold the policy compares it with.                       *)
(***************************************************************************)
Around(t) == {t - 1, t}

ImpressionValues ==
  {0} \cup Around(MIN_IMPRESSIONS_FOR_CHECK) \cup Around(CTR_CHECK_IMPRESSIONS)

ClickValues == {0, 1}

SpendValues == {0} \cup Around(CPC_CHECK_SPEND) \cup Around(ROAS_CHECK_SPEND)

CtrValues == {0} \cup Around(MIN_CTR_PERCENT) \cup Around(WINNER_MIN_CTR)

CpcValues == {MAX_CPC * Scale, MAX_CPC * Scale + 1}

(* Revenues that put roas on and just below MIN_ROAS and WINNER_MIN_ROAS.  *)
RevenueValues(spend) ==
  IF spend = 0 THEN {0}
  ELSE {0} \cup Around((MIN_ROAS * spend) \div Scale)
           \cup Around((WINNER_MIN_ROAS * spend) \div Scale)

DecideGrid ==
  { Row("data", i, c, s, t, hc, IF hc THEN p ELSE 0, r) :
      i \in ImpressionValues, c \in ClickValues, t \in CtrValues,
      hc \in BOOLEAN, p \in CpcValues,
      s \in SpendValues, r \in UNION {RevenueValues(x) : x \in SpendValues} }

InitDecide ==
  /\ insight \in {x \in DecideGrid : x.revenue \in RevenueValues(x.spend)}
            \cup {ErrorResponse, EmptyResponse}
  /\ decision = NoVerdict
  /\ pc = "decide"
  /\ status = [u \in Units |-> "ACTIVE"]
  /\ daily = [g \in Groups |-> 0]
  /\ lifetime = [g \in Groups |-> 0]
  /\ enabled = FALSE
  /\ active_ads = <<>>
  /\ idx = 1
  /\ stats = ZeroStats(0)
  /\ writes = <<>>
  /\ notes = <<>>
  /\ trail = <<>>
  /\ listing = "none"
  /\ exit = "none"
  /\ cycle = 1
  /\ ledger = NewLedger
  /\ report = <<>>
  /\ runs = NoRuns

Decide ==
  /\ pc = "decide"
  /\ decision' = check_ad_performance(insight)
  /\ pc' = "decided"
  /\ UNCHANGED <<status, daily, lifetime, enabled, active_ads, idx, stats,
                 writes, notes, trail, listing, exit, insight, cycle, ledger,
                 report, runs>>

NextDecide == Decide

SpecDecide == InitDecide /\ [][NextDecide]_vars

(***************************************************************************)
(* Properties.  The tier conditions below are those of the documented      *)
(* policy, on the snapshot check_ad_performance evaluates, with ctr, cpc   *)
(* and roas in hundredths.                                                 *)
(***************************************************************************)
Snapshot == get_ad_insights(insight)

Decided == pc = "decided"

Tier1 == Snapshot.impressions >= 500 /\ Snapshot.clicks = 0

Tier2 == Snapshot.impressions >= 1000 /\ Snapshot.ctr < 50

Tier3 == Snapshot.spend >= 5000 /\ Snapshot.cpc > 50000

Tier4 == Snapshot.spend >= 10000 /\ Snapshot.roas < 200

WinnerTier == Snapshot.ctr >= 150 /\ Snapshot.roas >= 400

AnyKillTier == Tier1 \/ Tier2 \/ Tier3 \/ Tier4

Kill(reason) == Verdict("kill", reason)

(* C6: the tiers are evaluated in the order Tier 1, 2, 3, 4, Winner,       *)
(* Default and the first matching tier decides: the kill reason is that of *)
(* the lowest-numbered matching kill tier, and a snapshot matching a kill  *)
(* tier is never decided scale, also when it satisfies the Winner tier.    *)
C6_TierOrder ==
  Decided =>
    /\ Tier1 => decision = Kill("no_clicks")
    /\ ~Tier1 /\ Tier2 => decision = Kill("low_ctr")
    /\ ~Tier1 /\ ~Tier2 /\ Tier3 => decision = Kill("cpc_exceeded")
    /\ ~Tier1 /\ ~Tier2 /\ ~Tier3 /\ Tier4 => decision = Kill("roas_below_minimum")
    /\ AnyKillTier => decision.action # "scale"
    /\ ~AnyKillTier /\ WinnerTier => decision = Verdict("scale", "None")
    /\ ~AnyKillTier /\ ~WinnerTier => decision = Verdict("keep", "None")

C6_Witness ==
  /\ Decided
  /\ Tier1 /\ WinnerTier
  /\ decision = Kill("no_clicks")

(* C7: the sample-size gate of every kill tier is inclusive and is a       *)
(* precondition of the kill: each tier applies from exactly its gate value *)
(* and not one below it, and below the gates of impressions and spend no   *)
(* snapshot is decided kill.                                               *)
C7_GateInclusive ==
  Decided =>
    /\ Snapshot.impressions = 500 /\ Snapshot.clicks = 0
         => decision = Kill("no_clicks")
    /\ Snapshot.impressions = 499 => decision.reason # "no_clicks"
    /\ Snapshot.impressions = 1000 /\ Snapshot.ctr < 50 /\ ~Tier1
         => decision = Kill("low_ctr")
    /\ Snapshot.impressions = 999 => decision.reason # "low_ctr"
    /\ Snapshot.spend = 5000 /\ Snapshot.cpc > 50000 /\ ~Tier1 /\ ~Tier2
         => decision = Kill("cpc_exceeded")
    /\ Snapshot.spend = 4999 => decision.reason # "cpc_exceeded"
    /\ Snapshot.spend = 10000 /\ Snapshot.roas < 200
         /\ ~Tier1 /\ ~Tier2 /\ ~Tier3
         => decision = Kill("roas_below_minimum")
    /\ Snapshot.spend = 9999 => decision.reason # "roas_below_minimum"
    /\ Snapshot.impressions < 500 /\ Snapshot.spend < 5000
         => decision.action # "kill"

C7_Witness ==
  /\ Decided
  /\ Snapshot.impressions = 500 /\ Snapshot.clicks = 0
  /\ decision.action = "kill"

(* C8: the quality comparisons of the kill tiers are strict and those of   *)
(* the Winner tier inclusive: with the gate met, ctr = 0.5 is no Tier-2    *)
(* kill, cpc = 500 no Tier-3 kill, roas = 2.0 no Tier-4 kill, and ctr =    *)
(* 1.5 with roas = 4.0 is decided scale when no kill tier matches.         *)
C8_QualityStrict ==
  Decided =>
    /\ Snapshot.impressions >= 1000 /\ Snapshot.ctr = 50
         => decision.reason # "low_ctr"
    /\ Snapshot.spend >= 5000 /\ Snapshot.cpc = 50000
         => decision.reason # "cpc_exceeded"
    /\ Snapshot.spend >= 10000 /\ Snapshot.roas = 200
         => decision.reason # "roas_below_minimum"
    /\ Snapshot.ctr = 150 /\ Snapshot.roas = 400 /\ ~AnyKillTier
         => decision.action = "scale"

C8_Witness ==
  /\ Decided
  /\ Snapshot.impressions >= 1000 /\ Snapshot.clicks > 0 /\ Snapshot.ctr = 50
  /\ Snapshot.spend >= 10000 /\ Snapshot.cpc = 50000 /\ Snapshot.roas = 200
  /\ decision.action = "keep"

(***************************************************************************)
(* Properties of the cycle.                                                *)
(***************************************************************************)
Counted == stats.kept + stats.paused + stats.scaled + stats.errors

Returned == pc \in {"returned", "exited"} /\ listing # "none"

Entries == {trail[k] : k \in 1..Len(trail)}

WritesOf(ad) == SelectSeq(writes, LAMBDA w : w.unit = ad)

NotesOf(ad) == SelectSeq(notes, LAMBDA n : n.unit = ad)

Effective(ad, kind) ==
  \E k \in 1..Len(writes) :
    writes[k].unit = ad /\ writes[k].kind = kind /\ writes[k].ok

(* C1: every unit of the active list increments exactly one of kept,       *)
(* paused, scaled, errors, so that they add up to total when               *)
(* monitor_all_ads returns.                                                *)
C1_OneBucketPerUnit ==
  /\ pc = "loop" => Counted = idx - 1 /\ stats.total = Len(active_ads)
  /\ Returned => Counted = stats.total /\ stats.total = Len(active_ads)
  /\ Len(trail) = Counted
  /\ \A e \in Entries : e.bucket \in {"kept", "paused", "scaled", "errors"}

C1_Witness ==
  /\ pc = "returned"
  /\ stats.total >= 2
  /\ stats.errors >= 1
  /\ stats.paused >= 1

(* The failures of one iteration: the metrics fetch raised, or the action  *)
(* (pause_ad, scale_up_winner) reported failure or raised.                 *)
Failed(e) == e.fetch = "error" \/ e.ret \in {"false", "raise"}

(* C2: an error while processing a unit (in fetch, decide, pause or scale) *)
(* is counted under errors, and every later unit of the active list is     *)
(* still processed in the same cycle.                                      *)
C2_FailureIsolation ==
  /\ \A e \in Entries : Failed(e) => e.bucket = "errors"
  /\ Returned => Len(trail) = Len(active_ads)

(* C3: in a cycle over N units where the metrics fetch of a unit fails,    *)
(* the summary has total = N and errors >= 1, and the unit whose fetch     *)
(* failed is counted under errors, not under kept.                         *)
C3_FetchFailureCounted ==
  Returned /\ (\E e \in Entries : e.fetch = "error") =>
    /\ stats.total = Len(active_ads)
    /\ stats.errors >= 1
    /\ \A e \in Entries : e.fetch = "error" => e.bucket = "errors"

(* C4: a failure to list the active units reaches the caller as a failure  *)
(* of the run, which so differs from a run over zero active units.         *)
C4_ListingFailureEscalates ==
  pc = "exited" /\ listing = "failed" => exit = "exit1"

(* C5: when the listing fails, the summary is all zero, no status or       *)
(* budget write is issued and exactly one error notification is emitted.   *)
C5_ListingFailureSummary ==
  Returned /\ listing = "failed" =>
    /\ stats = ZeroStats(0)
    /\ writes = <<>>
    /\ Len(notes) = 1
    /\ notes[1].kind = "error"

C5_Witness ==
  /\ pc = "exited"
  /\ listing = "failed"
  /\ status[1] = "ACTIVE"

(* C9: a unit for which the platform returns no insight data is decided    *)
(* keep on an all-zero snapshot, counted under kept, and gets no write.    *)
C9_NoDataIsKept ==
  \A e \in Entries :
    e.fetch = "empty" =>
      /\ e.action = "keep"
      /\ e.ret = "true"
      /\ e.bucket = "kept"
      /\ WritesOf(e.ad) = <<>>
      /\ NotesOf(e.ad) = <<>>

C9_Witness ==
  /\ pc = "returned"
  /\ \E e \in Entries : e.fetch = "empty" /\ e.bucket = "kept"
  /\ stats.kept = stats.total

(* C10: when the status write of pause_ad (the budget write of             *)
(* scale_up_winner) succeeds, the unit is counted under paused (scaled)    *)
(* whatever the notifier did, and errors counts no unit whose write        *)
(* succeeded.                                                              *)
C10_NotifierNeverFailsAction ==
  \A e \in Entries :
    /\ Effective(e.ad, "status") => e.ret = "true" /\ e.bucket = "paused"
    /\ Effective(e.ad, "budget") => e.ret = "true" /\ e.bucket = "scaled"
    /\ e.bucket = "errors" =>
         ~Effective(e.ad, "status") /\ ~Effective(e.ad, "budget")

C10_Witness ==
  /\ \E e \in Entries :
       /\ e.bucket = "paused"
       /\ \E k \in 1..Len(notes) :
            /\ notes[k].unit = e.ad
            /\ notes[k].kind = "paused"
            /\ notes[k].net = "exception"
            /\ notes[k].ret = "false"
  /\ \E e \in Entries :
       /\ e.bucket = "scaled"
       /\ \E k \in 1..Len(notes) :
            /\ notes[k].unit = e.ad
            /\ notes[k].kind = "scaled"
            /\ notes[k].net \in {"non200", "disabled", "exception"}

(* The entry of the iteration a step has just made, the write calls the    *)
(* step issued, and the budget scale_up_winner reads for group g.          *)
LastEntry == trail'[Len(trail')]

Iterated == Len(trail') = Len(trail) + 1

NewWrites == SubSeq(writes', Len(writes) + 1, Len(writes'))

BudgetRead(g) == IF daily[g] # 0 THEN daily[g] ELSE lifetime[g]

FieldRead(g) == IF daily[g] # 0 THEN "daily_budget" ELSE "lifetime_budget"

FailedStatusWrite(ad) ==
  \E k \in 1..Len(writes) :
    writes[k].unit = ad /\ writes[k].kind = "status" /\ ~writes[k].ok

(* C11: when the status write of pause_ad fails, pause_ad returns failure, *)
(* an error notification is emitted, the status of the unit is what it was *)
(* before (ACTIVE, as listed) and the unit is counted under errors, not    *)
(* under paused.                                                           *)
C11_PauseFailure ==
  \A e \in Entries :
    e.action = "kill" /\ FailedStatusWrite(e.ad) =>
      /\ e.ret = "false"
      /\ Len(NotesOf(e.ad)) = 1
      /\ NotesOf(e.ad)[1].kind = "error"
      /\ status[e.ad] = "ACTIVE"
      /\ e.bucket = "errors"

C11_Witness ==
  /\ pc = "returned"
  /\ \E e \in Entries :
       e.action = "kill" /\ FailedStatusWrite(e.ad) /\ e.bucket = "errors"
  /\ stats.paused = 0

(* C12: scale_up_winner writes the budget field it read (daily when it is  *)
(* set, else lifetime) and never the other one; the other field and every  *)
(* status are unchanged by a scale.                                        *)
C12_SameFieldWritten ==
  [][ /\ \A g \in Groups :
           /\ daily'[g] # daily[g] =>
                daily[g] # 0 /\ lifetime'[g] = lifetime[g] /\ status' = status
           /\ lifetime'[g] # lifetime[g] =>
                daily[g] = 0 /\ lifetime[g] # 0 /\ daily'[g] = daily[g]
                /\ status' = status
      /\ \A k \in 1..Len(NewWrites) :
           NewWrites[k].kind = "budget" =>
             NewWrites[k].field = FieldRead(NewWrites[k].target)
    ]_vars

C12_Witness ==
  \E k \in 1..Len(writes) :
    /\ writes[k].kind = "budget" /\ writes[k].ok
    /\ writes[k].field = "lifetime_budget"
    /\ lifetime[writes[k].target] = writes[k].amount
    /\ daily[writes[k].target] = 0
    /\ status[writes[k].unit] = "ACTIVE"

(* C13: for a unit decided scale whose budget group has budget B in the    *)
(* field read, exactly one budget write is issued for the unit, with value *)
(* 1.5 x B truncated to an integer (10000 gives 15000), and no status      *)
(* write.                                                                  *)
C13_OneBudgetWrite ==
  [][ Iterated /\ LastEntry.action = "scale" /\ LastEntry.reads = "ok"
        /\ BudgetRead(AdsetOf(LastEntry.ad)) # 0 =>
        LET g == AdsetOf(LastEntry.ad)
            B == BudgetRead(g)
        IN /\ Len(NewWrites) = 1
           /\ NewWrites[1].kind = "budget"
           /\ NewWrites[1].unit = LastEntry.ad
           /\ NewWrites[1].target = g
           /\ 2 * NewWrites[1].amount <= 3 * B
           /\ 2 * NewWrites[1].amount > 3 * B - 2
           /\ B = 10000 => NewWrites[1].amount = 15000
           /\ WritesOf(LastEntry.ad) = <<>>
    ]_vars

C13_Witness ==
  /\ \E k \in 1..Len(writes) :
       /\ writes[k].kind = "budget" /\ writes[k].ok
       /\ writes[k].field = "daily_budget"
       /\ writes[k].amount = 15000
       /\ Len(WritesOf(writes[k].unit)) = 1
  /\ \E e \in Entries : e.action = "scale" /\ e.bucket = "scaled"

(* C14: when neither the daily nor the lifetime budget of the budget group *)
(* is set, scale_up_winner attempts no budget write and reports failure,   *)
(* and the unit is counted under errors.                                   *)
C14_BudgetUnavailable ==
  \A e \in Entries :
    e.action = "scale" /\ daily[AdsetOf(e.ad)] = 0
      /\ lifetime[AdsetOf(e.ad)] = 0 =>
      /\ WritesOf(e.ad) = <<>>
      /\ e.ret = "false"
      /\ e.bucket = "errors"

C14_Witness ==
  \E e \in Entries :
    /\ e.action = "scale" /\ e.reads = "ok"
    /\ daily[AdsetOf(e.ad)] = 0 /\ lifetime[AdsetOf(e.ad)] = 0
    /\ e.bucket = "errors"
    /\ NotesOf(e.ad) = <<>>

(* The units that were not ACTIVE when the run listed the units: those     *)
(* that are PAUSED without a status write of this run.                     *)
NotListed == {u \in Units : status[u] = "PAUSED" /\ ~Effective(u, "status")}

Listed == listing = "ok"

(* C17: a unit that is not ACTIVE when the cycle lists the units is        *)
(* excluded from the cycle: no fetch, no decision, no write for it, and it *)
(* is not counted in total.                                                *)
C17_InactiveExcluded ==
  Listed =>
    /\ \A u \in NotListed :
         /\ \A k \in 1..Len(active_ads) : active_ads[k] # u
         /\ \A e \in Entries : e.ad # u
         /\ WritesOf(u) = <<>>
         /\ NotesOf(u) = <<>>
    /\ stats.total = NumUnits - Cardinality(NotListed)

C17_Witness ==
  /\ pc = "returned" /\ Listed
  /\ NotListed # {}
  /\ stats.total >= 1
  /\ writes # <<>>

(* C18: for every unit decided kill, the cycle issues exactly one status   *)
(* write, setting the unit to PAUSED, and no budget write.                 *)
C18_OneStatusWrite ==
  \A e \in Entries :
    e.action = "kill" =>
      /\ Len(WritesOf(e.ad)) = 1
      /\ WritesOf(e.ad)[1].kind = "status"
      /\ WritesOf(e.ad)[1].target = e.ad
      /\ WritesOf(e.ad)[1].value = "PAUSED"

C18_Witness ==
  \E e \in Entries :
    /\ e.action = "kill" /\ e.reason = "no_clicks"
    /\ Effective(e.ad, "status")
    /\ status[e.ad] = "PAUSED"

(* C19: a unit decided keep gets no write call and no notification; it     *)
(* only increments kept, and a run that keeps every unit notifies nothing. *)
C19_KeepIsNoOp ==
  /\ \A e \in Entries :
       e.action = "keep" =>
         /\ WritesOf(e.ad) = <<>>
         /\ NotesOf(e.ad) = <<>>
         /\ e.bucket = "kept"
  /\ Listed /\ (\A e \in Entries : e.action = "keep") =>
       /\ writes = <<>>
       /\ notes = <<>>
       /\ stats.kept = Len(trail)

C19_Witness ==
  /\ pc = "exited"
  /\ \E e \in Entries : e.action = "keep" /\ e.fetch = "data"
  /\ \A e \in Entries : e.action = "keep"
  /\ notes = <<>>

(* C20: a cycle over zero active units returns an all-zero summary and     *)
(* makes no write call.                                                    *)
C20_ZeroUnitCycle ==
  Returned /\ Listed /\ NotListed = Units =>
    /\ stats = ZeroStats(0)
    /\ writes = <<>>
    /\ trail = <<>>

C20_Witness ==
  /\ pc = "returned" /\ Listed
  /\ NotListed = Units
  /\ stats.total = 0

(***************************************************************************)
(* Claims about the cycles of run_monitoring_loop (SpecLoop).              *)
(***************************************************************************)
RECURSIVE ScaledTimes(_, _)
ScaledTimes(B, k) == IF k = 0 THEN B ELSE (3 * ScaledTimes(B, k - 1)) \div 2

Budget0(g) == IF ledger.daily0[g] # 0 THEN ledger.daily0[g]
                                      ELSE ledger.lifetime0[g]

Compounded ==
  \A g \in Groups :
    IF ledger.daily0[g] # 0
      THEN /\ daily[g] = ScaledTimes(ledger.daily0[g], ledger.applied[g])
           /\ lifetime[g] = ledger.lifetime0[g]
      ELSE /\ lifetime[g] = ScaledTimes(ledger.lifetime0[g], ledger.applied[g])
           /\ daily[g] = 0

(* C15: scaling is repeatable without limit: in every cycle in which a    *)
(* unit qualifies as a winner and its budget is read and not zero, the     *)
(* budget write is issued again, however often the budget was scaled       *)
(* before (no cooldown, no ceiling, no memory of earlier scalings), and    *)
(* after k effective scalings the budget that was set at the start is the  *)
(* 1.5x rule, truncated to an integer, applied k times to it, while the    *)
(* other budget field keeps its value.                                     *)
C15_ScalingCompounds ==
  [][/\ Compounded'
     /\ (/\ Iterated
         /\ LastEntry.action = "scale"
         /\ LastEntry.reads = "ok"
         /\ BudgetRead(AdsetOf(LastEntry.ad)) # 0)
        => /\ Len(NewWrites) = 1
           /\ NewWrites[1].kind = "budget"
           /\ NewWrites[1].amount =
                (3 * BudgetRead(AdsetOf(LastEntry.ad))) \div 2
           /\ NewWrites[1].ok
                => NewWrites[1].amount =
                     IF daily[AdsetOf(LastEntry.ad)] # 0
                       THEN daily'[AdsetOf(LastEntry.ad)]
                       ELSE lifetime'[AdsetOf(LastEntry.ad)]]_vars

(* A unit that was scaled in two consecutive cycles, alone in its budget   *)
(* group (the others were paused from the start): 10000 -> 15000 -> 22500, *)
(* or 20001 -> 30001 -> 45001 with truncation both times.                  *)
C15_Witness ==
  /\ cycle = 2
  /\ \E u \in Units :
       /\ Effective(u, "budget")
       /\ ledger.applied[AdsetOf(u)] = 2
       /\ \A v \in Units \ {u} :
            AdsetOf(v) = AdsetOf(u)
              => status[v] = "PAUSED" /\ v \notin ledger.pausedBy
       /\ \/ daily[AdsetOf(u)] = 22500
          \/ lifetime[AdsetOf(u)] = 45001

(* C16: the system only ever writes the status PAUSED, never ACTIVE, and   *)
(* a unit it has paused gets no further write of any kind in that or a     *)
(* later cycle, unless an operator has reactivated it in between.          *)
C16_PausedIsTerminal ==
  [][\A k \in 1..Len(NewWrites) :
       /\ NewWrites[k].unit \notin ledger.pausedBy
       /\ NewWrites[k].kind = "status" => NewWrites[k].value = "PAUSED"]_vars

(* The second cycle has run and written for another unit, while a unit     *)
(* paused in the first cycle is still paused and was left alone.           *)
C16_Witness ==
  /\ cycle = 2
  /\ pc = "returned"
  /\ \E u \in ledger.pausedBy, v \in Units :
       /\ status[u] = "PAUSED"
       /\ WritesOf(u) = <<>>
       /\ v # u
       /\ WritesOf(v) # <<>>

(***************************************************************************)
(* Claims about the decision, the loop's failures and interrupts, the      *)
(* diagnostic and concurrent runs.                                         *)
(***************************************************************************)
KillReasons == {"no_clicks", "low_ctr", "cpc_exceeded", "roas_below_minimum"}

(* C21: for every snapshot check_ad_performance returns exactly one of     *)
(* kill, scale, keep, with a reason exactly when the result is kill (then  *)
(* one of the four kill reasons), also for a failed or empty reading and a *)
(* snapshot that matches several tiers at once.                            *)
C21_TotalDecision ==
  Decided =>
    /\ decision.action \in {"kill", "scale", "keep"}
    /\ decision.action = "kill" <=> decision.reason \in KillReasons
    /\ decision.action # "kill" <=> decision.reason = "None"

(* A snapshot that matches a kill tier and the Winner tier has one result. *)
C21_Witness ==
  /\ Decided
  /\ Tier4
  /\ ~Tier1 /\ ~Tier2 /\ ~Tier3
  /\ Snapshot.ctr >= 150
  /\ decision = Kill("roas_below_minimum")

FailedCycle ==
  pc \in {"loop", "returned"} /\ CycleFailed /\ cycle < MaxCycles

Interrupted == pc = "exited" /\ exit = "interrupted"

(* C22: run_monitoring_loop survives failed cycles: whatever fails inside  *)
(* a cycle (the listing, a fetch, a write, a webhook call), the loop       *)
(* leaves only through an interrupt, and every failed cycle but the last   *)
(* of the run is followed by the listing of the next cycle unless an       *)
(* interrupt ends the run.                                                 *)
C22_LoopSurvives ==
  /\ [](pc = "exited" => exit = "interrupted")
  /\ FailedCycle ~> (pc = "list" \/ Interrupted)

(* The second cycle of a run whose first cycle had a failure has failed as *)
(* well, at the listing, and the loop is still running.                    *)
C22_Witness ==
  /\ cycle = 2
  /\ ledger.failed
  /\ listing = "failed"
  /\ \E k \in 1..Len(notes) : notes[k].net = "exception"
  /\ pc = "returned"
  /\ exit = "none"

(* C23: an interrupt that arrives while a cycle is in flight ends the run  *)
(* at once: the step that takes it counts no unit (errors and the other    *)
(* counters keep their values), issues no write for a unit other than the  *)
(* one in flight, in particular none for the units not yet processed, and  *)
(* leaves the loop, after which nothing more is done.                      *)
C23_InterruptAbandons ==
  [][/\ pc # "exited"
     /\ exit' = "interrupted"
          => /\ pc' = "exited"
             /\ stats' = stats
             /\ trail' = trail
             /\ \A k \in 1..Len(NewWrites) :
                  /\ pc = "loop"
                  /\ NewWrites[k].unit = active_ads[idx]]_vars

(* Interrupted while the first of two listed units was in flight, its      *)
(* write already accepted: nothing counted, nothing written for the second.*)
C23_Witness ==
  /\ Interrupted
  /\ Len(active_ads) = 2
  /\ idx = 1
  /\ stats.errors = 0
  /\ WritesOf(active_ads[1]) # <<>>
  /\ WritesOf(active_ads[2]) = <<>>

NewNotes == SubSeq(notes', Len(notes) + 1, Len(notes'))

(* C24: the diagnostic performs no mutation: no step of                    *)
(* get_performance_summary or get_all_performance_report issues a status   *)
(* or budget write, changes a status or a budget, or sends a pause or      *)
(* scale notification, whatever the unit's snapshot is decided.            *)
C24_DiagnosticReadOnly ==
  [][/\ writes' = <<>>
     /\ status' = status
     /\ daily' = daily
     /\ lifetime' = lifetime
     /\ \A k \in 1..Len(NewNotes) :
          NewNotes[k].kind \notin {"paused", "scaled"}]_vars

(* A report with a unit decided kill and a unit decided scale, both still  *)
(* active and nothing written.                                             *)
C24_Witness ==
  /\ pc = "reported"
  /\ Len(report) = 2
  /\ report[1].action = "kill"
  /\ report[2].action = "scale"
  /\ status[report[1].ad_id] = "ACTIVE"
  /\ daily[AdsetOf(report[2].ad_id)] = 10000
  /\ writes = <<>>

(* The tier policy applied to the metrics m of a summary.                  *)
PolicyOn(m) ==
  IF m.impressions >= 500 /\ m.clicks = 0 THEN Kill("no_clicks")
  ELSE IF m.impressions >= 1000 /\ m.ctr < 50 THEN Kill("low_ctr")
  ELSE IF m.spend >= 5000 /\ m.cpc > 50000 THEN Kill("cpc_exceeded")
  ELSE IF m.spend >= 10000 /\ m.roas < 200 THEN Kill("roas_below_minimum")
  ELSE IF m.ctr >= 150 /\ m.roas >= 400 THEN Verdict("scale", "None")
  ELSE Verdict("keep", "None")

(* C29: the action and reason of every summary are the decision of the     *)
(* tier policy on the metrics of that same summary.                        *)
C29_SummaryConsistent ==
  \A k \in 1..Len(report) :
    Verdict(report[k].action, report[k].reason) = PolicyOn(report[k])

InCycleRuns == {r \in Runs : runs[r].pc \in {"list", "loop", "write"}}

(* C25: cycles never overlap: at most one cycle is under way, and so       *)
(* issuing platform writes, at any time, also when the cycles are started  *)
(* by the cron entry point.                                                *)
C25_CyclesNeverOverlap == Cardinality(InCycleRuns) <= 1

(* C30: the read-modify-write of scale_up_winner is not torn: every budget *)
(* write carries int(1.5 x the budget the group has immediately before the *)
(* write), whatever another running cycle or an operator did in between.   *)
C30_ScaleNotTorn ==
  [][\A k \in 1..Len(NewWrites) :
       NewWrites[k].kind = "budget" =>
         NewWrites[k].amount = (3 * BudgetRead(NewWrites[k].target)) \div 2]_vars

(***************************************************************************)
(* One cycle of monitor_all_ads on budget groups with a small budget, in   *)
(* the daily or in the lifetime field: the amounts on which the truncation *)
(* of int(current_budget * 1.5) shows.  No webhook URL is configured.      *)
(***************************************************************************)
SmallBudgets ==
  {<<b, 0>> : b \in 1..MaxBudget} \cup {<<0, b>> : b \in 1..MaxBudget}

InitScale ==
  /\ status \in [Units -> {"ACTIVE", "PAUSED"}]
  /\ \E b \in [Groups -> SmallBudgets] :
       /\ daily = [g \in Groups |-> b[g][1]]
       /\ lifetime = [g \in Groups |-> b[g][2]]
  /\ enabled = FALSE
  /\ pc = "list"
  /\ active_ads = <<>>
  /\ idx = 1
  /\ stats = ZeroStats(0)
  /\ writes = <<>>
  /\ notes = <<>>
  /\ trail = <<>>
  /\ listing = "none"
  /\ exit = "none"
  /\ insight = NoRow
  /\ decision = NoVerdict
  /\ cycle = 1
  /\ ledger = NewLedger
  /\ report = <<>>
  /\ runs = NoRuns

NextScale == GetActiveAds \/ ProcessUnit

SpecScale == InitScale /\ [][NextScale]_vars

(* The budget writes of the cycle that took effect on budget group g.      *)
EffectiveBudgetWrites(g) ==
  SelectSeq(writes, LAMBDA w : w.kind = "budget" /\ w.ok /\ w.target = g)

(* C26: within a single cycle the budget of a budget group is increased at *)
(* most once, also when several active Winner units share the group.       *)
C26_GroupScaledOnce ==
  \A g \in Groups : Len(EffectiveBudgetWrites(g)) <= 1

(* C27: every scale counted under scaled strictly increases the budget:    *)
(* the value written is greater than the budget B >= 1 that was read.      *)
C27_ScaleIncreases ==
  [][Iterated /\ LastEntry.bucket = "scaled" =>
       \A k \in 1..Len(NewWrites) :
         NewWrites[k].kind = "budget" =>
           /\ BudgetRead(NewWrites[k].target) >= 1
           /\ NewWrites[k].amount > BudgetRead(NewWrites[k].target)]_vars

(* The units whose status the cycle set to PAUSED on the platform.         *)
PausedByCycle ==
  {u \in Units : \E k \in 1..Len(writes) :
     writes[k].kind = "status" /\ writes[k].ok /\ writes[k].target = u}

EffectiveWrites(ad) == SelectSeq(WritesOf(ad), LAMBDA w : w.ok)

====
